---- MODULE Spec2Model ----
(***************************************************************************)
(* FileSource of nes-sources: a pull-based source that fills caller        *)
(* supplied tuple buffers from a file, either raw or through a streaming   *)
(* zstd decompressor.                                                      *)
(*                                                                         *)
(* The file is a sequence of units.  In uncompressed mode a unit is one    *)
(* raw byte.  In zstd mode a unit is one self-delimited piece of the       *)
(* compressed stream:                                                      *)
(*    "b"       a block that decodes to the single byte "b"                *)
(*    "A"       a block that decodes to the two bytes "aa" (expansion)     *)
(*    "E"       input the codec consumes without emitting output and       *)
(*              after which ZSTD_decompressStream returns (frame header,   *)
(*              frame epilogue)                                            *)
(*    "X"       corrupt input: the codec reports an error                  *)
(*                                                                         *)
(* Beside it, URLDownloader::downloadToFile of nes-common, which fetches a *)
(* URL into a target file.                                                 *)
(***************************************************************************)
EXTENDS Integers, Sequences, FiniteSets, TLC

\* ---------------------------------------------------------------- bounds
\* Spec explores compressed files of up to MaxFile units and raw files of up
\* to MaxRawFile bytes, destinations of up to MaxCap bytes, staging buffers
\* of up to MaxInCap / MaxOutCap units and MaxOpens calls of open().
\* SpecWide explores one more of each but the destination capacity;
\* SpecReopen the files of Spec with one more open().  SpecConc puts a
\* diagnostics reader beside the filling caller.  SpecSteps and SpecLong
\* follow fillTupleBuffer statement by statement, SpecLong over longer files
\* with a corrupt unit.  SpecDownload explores downloadToFile with response
\* bodies of up to MaxBody bytes.
MaxFile == 2
MaxRawFile == 3
MaxCap == 2
MaxInCap == 1
MaxOutCap == 1
MaxOpens == 1
MaxBody == 2

WideFile == MaxFile + 1
WideInCap == MaxInCap + 1
WideOutCap == MaxOutCap + 1
WideOpens == MaxOpens + 1

Bytes == {"a", "b"}
Units == {"b", "A", "E", "X"}
CompressionTypes == {"none", "zstd", "gzip"}

RECURSIVE SeqsUpTo(_, _)
SeqsUpTo(S, n) ==
    IF n = 0 THEN {<<>>}
    ELSE LET shorter == SeqsUpTo(S, n - 1)
         IN shorter \cup {Append(s, x) : s \in {t \in shorter : Len(t) = n - 1}, x \in S}

Min(x, y) == IF x < y THEN x ELSE y

\* ----------------------------------------------------------------- state
VARIABLES
    file,                   \* content of the file at filePath
    pathExists,             \* whether filePath can be resolved and opened
    compressionType,        \* config value COMPRESSION
    DStreamInSize,          \* ZSTD_DStreamInSize()
    DStreamOutSize,         \* ZSTD_DStreamOutSize()
    inputFile,              \* std::ifstream: [isOpen, good, pos]
    zstdContext,            \* 0 = nullptr, otherwise the id of a ZSTD_DCtx
    dctx,                   \* state of the context zstdContext points to
    ctxFrees,               \* id of a created context -> number of
                            \* ZSTD_freeDCtx calls on it
    compressedBuffer,       \* size of the input staging vector
    decompressedBuffer,     \* data()[0 .. decompressedSize) of the output
                            \* staging vector, the part that is ever read
    decompressedCapacity,   \* decompressedBuffer.size()
    decompressedOffset,
    decompressedSize,
    endOfCompressedStream,
    totalNumBytesRead,
    opens,                  \* number of open() calls made
    opened,                 \* an open() succeeded and no close() followed
    delivered,              \* bytes handed out since the last open()
    eosSeen,                \* a fill returned EndOfStream since the last open()
    errSeen,                \* a fill failed with a codec error since the last open()
    lastCall,               \* the last operation and its outcome; again:
                            \* a close() that directly follows a close()
    fillPc,                 \* Idle, or the fillTupleBuffer call that has
                            \* filled its buffer and not yet added its count
    observed,               \* the last totalNumBytesRead.load() of toString
    bytesReturned,          \* the sum of n over the Bytes(n) returned so far
    disk,                   \* the download target: its parent directory and file
    download,               \* the last downloadToFile call and its outcome
    frame,                  \* the fillTupleBuffer call in progress, statement
                            \* by statement: its position and its locals
    copied                  \* the offsets of the staged block that a call
                            \* followed statement by statement has copied out

vars == <<file, pathExists, compressionType, DStreamInSize, DStreamOutSize,
          inputFile, zstdContext, dctx, ctxFrees, compressedBuffer,
          decompressedBuffer, decompressedCapacity, decompressedOffset, decompressedSize,
          endOfCompressedStream, totalNumBytesRead, opens, opened, delivered,
          eosSeen, errSeen, lastCall, fillPc, observed, bytesReturned,
          disk, download, frame, copied>>

\* what a diagnostics reader touches nothing of
source == <<inputFile, zstdContext, dctx, ctxFrees, compressedBuffer,
            decompressedBuffer, decompressedCapacity, decompressedOffset,
            decompressedSize, endOfCompressedStream, totalNumBytesRead>>
reader == <<fillPc, observed>>

\* what no FileSource operation touches
web == <<disk, download>>

config == <<file, pathExists, compressionType, DStreamInSize, DStreamOutSize>>

ClosedStream == [isOpen |-> FALSE, good |-> FALSE, pos |-> 0]
FreshDCtx == [pending |-> <<>>, poisoned |-> FALSE]
NoCall == [op |-> "none", again |-> FALSE, result |-> "ok", n |-> 0, k |-> 0]
Idle == [busy |-> FALSE, status |-> "ok", dest |-> <<>>, k |-> 0]
NoFrame == [pc |-> "idle", bufferSize |-> 0, dest |-> <<>>, input |-> <<>>, pos |-> 0,
            status |-> "ok", recovers |-> FALSE]

\* the codec's chunk sizes matter only when a zstd file can be opened
ZstdInUse(exists, ct) == exists /\ ct = "zstd"

\* The state after construction, for files and chunk sizes within the given
\* bounds.  The constructor sets filePath and compressionType; the other
\* members start empty: no stream, nullptr, empty vectors, 0 and false.
InitWithin(maxFile, maxRawFile, maxInCap, maxOutCap) ==
    /\ pathExists \in BOOLEAN
    /\ compressionType \in CompressionTypes
    /\ file \in IF ZstdInUse(pathExists, compressionType) THEN SeqsUpTo(Units, maxFile)
                ELSE IF pathExists THEN SeqsUpTo(Bytes, maxRawFile) ELSE {<<>>}
    /\ DStreamInSize \in IF ZstdInUse(pathExists, compressionType)
                          THEN 1..maxInCap ELSE {1}
    /\ DStreamOutSize \in IF ZstdInUse(pathExists, compressionType)
                           THEN 1..maxOutCap ELSE {1}
    /\ inputFile = ClosedStream
    /\ zstdContext = 0
    /\ dctx = FreshDCtx
    /\ ctxFrees = <<>>
    /\ compressedBuffer = 0
    /\ decompressedBuffer = <<>>
    /\ decompressedCapacity = 0
    /\ decompressedOffset = 0
    /\ decompressedSize = 0
    /\ endOfCompressedStream = FALSE
    /\ totalNumBytesRead = 0
    /\ opens = 0
    /\ opened = FALSE
    /\ delivered = <<>>
    /\ eosSeen = FALSE
    /\ errSeen = FALSE
    /\ lastCall = NoCall
    /\ fillPc = Idle
    /\ frame = NoFrame
    /\ copied = {}
    /\ observed = 0
    /\ bytesReturned = 0

EmptyDisk == [parent |-> FALSE, target |-> FALSE, content |-> <<>>]
NoDownload == [scheme |-> "", response |-> FALSE, status |-> 0, outcome |-> "none",
               localPath |-> "", bytesDownloaded |-> 0, contentType |-> ""]
NothingDownloaded == disk = EmptyDisk /\ download = NoDownload

Init == InitWithin(MaxFile, MaxRawFile, MaxInCap, MaxOutCap) /\ NothingDownloaded
InitWide == InitWithin(WideFile, MaxRawFile, WideInCap, WideOutCap) /\ NothingDownloaded

\* ------------------------------------------------------------ stream read
\* a read that hands out nothing when fewer than n units are left
IstreamReadDropsShort(f, n) ==
    IF ~f.isOpen \/ ~f.good
    THEN [stream |-> [f EXCEPT !.good = FALSE], data |-> <<>>]
    ELSE LET got == SubSeq(file, f.pos + 1, Min(f.pos + n, Len(file)))
         IN [stream |-> [f EXCEPT !.pos = f.pos + Len(got), !.good = (Len(got) = n)],
             data |-> IF Len(got) = n THEN got ELSE <<>>]

\* std::istream::read followed by gcount(): a stream that is not open or has
\* failbit/eofbit set extracts nothing; otherwise up to n units are taken and
\* a short read sets eofbit|failbit.
IstreamRead(f, n) ==
    IF ~f.isOpen \/ ~f.good
    THEN [stream |-> [f EXCEPT !.good = FALSE], data |-> <<>>]
    ELSE LET got == SubSeq(file, f.pos + 1, Min(f.pos + n, Len(file)))
         IN [stream |-> [f EXCEPT !.pos = f.pos + Len(got), !.good = (Len(got) = n)],
             data |-> got]

\* ------------------------------------------------------------------ codec
\* Bytes a block decodes to.
Expand(tok) == IF tok = "A" THEN <<"a", "a">> ELSE <<tok>>

\* ZSTD_decompressStream(dctx, &output, &input): first flushes what the
\* context still holds, then consumes input block by block, decoding each
\* block into the context and flushing it, until the output is full, the
\* input is used up, a frame boundary is passed, or the input is corrupt.
\* pending: decoded bytes held by the context, out: bytes written to the
\* output (output.pos = Len(out)), space: room left in the output,
\* pos: input.pos.
RECURSIVE ZSTD_decompressStream(_, _, _, _, _)
ZSTD_decompressStream(pending, out, space, input, pos) ==
    IF pending # <<>>
    THEN LET n == Min(Len(pending), space)
         IN IF n < Len(pending)
            THEN [isError |-> FALSE, out |-> out \o SubSeq(pending, 1, n),
                  pending |-> SubSeq(pending, n + 1, Len(pending)), pos |-> pos]
            ELSE ZSTD_decompressStream(<<>>, out \o pending, space - n, input, pos)
    ELSE IF pos >= Len(input) \/ space = 0
    THEN [isError |-> FALSE, out |-> out, pending |-> <<>>, pos |-> pos]
    ELSE IF input[pos + 1] = "X"
    THEN [isError |-> TRUE, out |-> out, pending |-> <<>>, pos |-> pos]
    ELSE IF input[pos + 1] = "E"
    THEN [isError |-> FALSE, out |-> out, pending |-> <<>>, pos |-> pos + 1]
    ELSE ZSTD_decompressStream(Expand(input[pos + 1]), out, space, input, pos + 1)

\* What the whole compressed file decodes to, up to the first corrupt unit.
RECURSIVE DecodeAll(_)
DecodeAll(f) ==
    IF f = <<>> \/ Head(f) = "X" THEN <<>>
    ELSE IF Head(f) = "E" THEN DecodeAll(Tail(f))
    ELSE Expand(Head(f)) \o DecodeAll(Tail(f))

\* ----------------------------------------------------- the Source's fields
Self ==
    [inputFile |-> inputFile, zstdContext |-> zstdContext, dctx |-> dctx,
     compressedBuffer |-> compressedBuffer,
     decompressedBuffer |-> decompressedBuffer,
     decompressedCapacity |-> decompressedCapacity,
     decompressedOffset |-> decompressedOffset,
     decompressedSize |-> decompressedSize,
     endOfCompressedStream |-> endOfCompressedStream]

\* out written into the staging vector at data() + at, where at bytes are valid
WriteAt(buf, at, out) == SubSeq(buf, 1, at) \o out

\* The loop of decompressNextBlock (lines 114-134) over the chunk just read.
\* recovers: whether a context that already reported an error keeps decoding
\* when it is used again (zstd leaves this open).
\* One pass through the loop body (lines 116-133), entered with input left;
\* more: whether the loop goes on to its test again.
DecodeIter(s, input, pos, recovers) ==
    IF s.zstdContext = 0 THEN [s |-> s, status |-> "crash", pos |-> pos, more |-> FALSE]
    ELSE IF s.dctx.poisoned /\ ~recovers
    THEN [s |-> s, status |-> "throw", pos |-> pos, more |-> FALSE]
    ELSE LET r == ZSTD_decompressStream(s.dctx.pending, <<>>,
                      s.decompressedCapacity - s.decompressedSize, input, pos)
         IN IF r.isError
            THEN [s |-> [s EXCEPT !.dctx.poisoned = TRUE], status |-> "throw",
                  pos |-> pos, more |-> FALSE]
            ELSE LET s2 == [s EXCEPT
                         !.dctx.pending = r.pending,
                         !.decompressedBuffer =
                             WriteAt(s.decompressedBuffer, s.decompressedSize, r.out),
                         !.decompressedSize = s.decompressedSize + Len(r.out)]
                 IN [s |-> s2, status |-> "ok", pos |-> r.pos,
                     more |-> s2.decompressedSize < s2.decompressedCapacity]

RECURSIVE DecodeLoop(_, _, _, _)
DecodeLoop(s, input, pos, recovers) ==
    IF pos >= Len(input) THEN [s |-> s, status |-> "ok"]
    ELSE CHOOSE done \in {IF i.more THEN DecodeLoop(i.s, input, i.pos, recovers)
                          ELSE [s |-> i.s, status |-> i.status]
                          : i \in {DecodeIter(s, input, pos, recovers)}} : TRUE

\* an early return that drops what is staged
ExhaustedReturnCleared(s) == [s EXCEPT !.decompressedOffset = 0, !.decompressedSize = 0]

\* lines 94-97: return false, nothing touched
ExhaustedReturn(s) == s

\* ending the stream after whatever a read returned
StreamEndedAlways(compressedBytesRead) == TRUE

\* line 103: the read returned nothing
StreamEnded(compressedBytesRead) == compressedBytesRead = 0

\* FileSource::decompressNextBlock; ret is the returned bool.
decompressNextBlock(s, recovers) ==
    IF s.endOfCompressedStream
    THEN [s |-> ExhaustedReturn(s), status |-> "ok", ret |-> FALSE]
    ELSE LET rd == IstreamRead(s.inputFile, s.compressedBuffer)
             s1 == [s EXCEPT !.inputFile = rd.stream]
         IN IF StreamEnded(Len(rd.data))
            THEN [s |-> [s1 EXCEPT !.endOfCompressedStream = TRUE],
                  status |-> "ok", ret |-> FALSE]
            ELSE LET d == DecodeLoop([s1 EXCEPT !.decompressedSize = 0,
                                                !.decompressedBuffer = <<>>],
                                     rd.data, 0, recovers)
                 IN IF d.status # "ok"
                    THEN [s |-> d.s, status |-> d.status, ret |-> FALSE]
                    ELSE [s |-> [d.s EXCEPT !.decompressedOffset = 0],
                          status |-> "ok", ret |-> d.s.decompressedSize > 0]

\* a copy of all that is staged
BytesToCopyAvailable(availableDecompressed, spaceInBuffer) == availableDecompressed

\* a copy that moves nothing
BytesToCopyNone(availableDecompressed, spaceInBuffer) == 0

\* line 156
BytesToCopy(availableDecompressed, spaceInBuffer) ==
    Min(availableDecompressed, spaceInBuffer)

\* The while loop of fillTupleBuffer in zstd mode (lines 149-171); dest is
\* what has been copied into the tuple buffer, Len(dest) = totalBytesWritten.
RECURSIVE FillLoop(_, _, _, _)
FillLoop(s, dest, bufferSize, recovers) ==
    IF Len(dest) >= bufferSize THEN [s |-> s, dest |-> dest, status |-> "ok"]
    ELSE IF s.decompressedOffset < s.decompressedSize
    THEN LET availableDecompressed == s.decompressedSize - s.decompressedOffset
             spaceInBuffer == bufferSize - Len(dest)
             bytesToCopy == BytesToCopy(availableDecompressed, spaceInBuffer)
         IN FillLoop([s EXCEPT !.decompressedOffset = s.decompressedOffset + bytesToCopy],
                     dest \o SubSeq(s.decompressedBuffer, s.decompressedOffset + 1,
                                    s.decompressedOffset + bytesToCopy),
                     bufferSize, recovers)
    ELSE CHOOSE done \in {IF r.status # "ok"
                          THEN [s |-> r.s, dest |-> dest, status |-> r.status]
                          ELSE IF ~r.ret THEN [s |-> r.s, dest |-> dest, status |-> "ok"]
                          ELSE FillLoop(r.s, dest, bufferSize, recovers)
                          : r \in {decompressNextBlock(s, recovers)}} : TRUE

\* The uncompressed path of fillTupleBuffer (lines 182-184).
FillRaw(s, bufferSize) ==
    LET rd == IstreamRead(s.inputFile, bufferSize)
    IN [s |-> [s EXCEPT !.inputFile = rd.stream], dest |-> rd.data, status |-> "ok"]

\* lines 174-178 and 186-190: the result for a number of bytes written
\* a result that is withBytes whatever the count
FillTupleBufferResultAlwaysBytes(n) == "bytes"

FillTupleBufferResult(n) == IF n = 0 THEN "eos" ELSE "bytes"

\* ------------------------------------------------------------- operations
Crashed == lastCall.result = "crash"

OpenStream == [isOpen |-> TRUE, good |-> TRUE, pos |-> 0]

\* std::ifstream(realpath(filePath), binary)
IfstreamCtor == IF pathExists THEN OpenStream ELSE ClosedStream

\* which of open()'s branches is unsupported (line 76)
Unsupported(ct) == ct # "zstd" /\ ct # "none" /\ ct # ""

\* FileSource::open; createOk: whether ZSTD_createDCtx returns a context.
open(createOk, maxOpens) ==
    /\ ~Crashed
    /\ opens < maxOpens
    /\ opens' = opens + 1
    /\ inputFile' = IfstreamCtor
    /\ delivered' = <<>>
    /\ eosSeen' = FALSE
    /\ errSeen' = FALSE
    /\ UNCHANGED <<config, web, frame, copied, totalNumBytesRead, bytesReturned, reader>>
    /\ ~fillPc.busy
    /\ frame.pc = "idle"
    /\ IF ~pathExists
       THEN /\ lastCall' = [NoCall EXCEPT !.op = "open", !.result = "throw"]
            /\ opened' = FALSE
            /\ UNCHANGED <<zstdContext, dctx, ctxFrees, compressedBuffer, decompressedBuffer,
                           decompressedCapacity, decompressedOffset, decompressedSize, endOfCompressedStream>>
       ELSE IF compressionType = "zstd"
       THEN /\ zstdContext' = IF createOk THEN Len(ctxFrees) + 1 ELSE 0
            /\ ctxFrees' = IF createOk THEN Append(ctxFrees, 0) ELSE ctxFrees
            /\ dctx' = FreshDCtx
            /\ IF ~createOk
               THEN /\ lastCall' = [NoCall EXCEPT !.op = "open", !.result = "throw"]
                    /\ opened' = FALSE
                    /\ UNCHANGED <<compressedBuffer, decompressedBuffer,
                                   decompressedCapacity, decompressedOffset,
                                   decompressedSize, endOfCompressedStream>>
               ELSE /\ compressedBuffer' = DStreamInSize
                    /\ decompressedBuffer' = <<>>
                    /\ decompressedCapacity' = DStreamOutSize
                    /\ decompressedOffset' = 0
                    /\ decompressedSize' = 0
                    /\ endOfCompressedStream' = FALSE
                    /\ lastCall' = [NoCall EXCEPT !.op = "open"]
                    /\ opened' = TRUE
       ELSE /\ lastCall' = [NoCall EXCEPT !.op = "open",
                               !.result = IF Unsupported(compressionType)
                                          THEN "throw" ELSE "ok"]
            /\ opened' = ~Unsupported(compressionType)
            /\ UNCHANGED <<zstdContext, dctx, ctxFrees, compressedBuffer, decompressedBuffer,
                           decompressedCapacity, decompressedOffset, decompressedSize, endOfCompressedStream>>

Open == \E createOk \in BOOLEAN : open(createOk, MaxOpens)
OpenWide == \E createOk \in BOOLEAN : open(createOk, WideOpens)

\* the context reference close() leaves behind (line 88)
\* a close() that frees the context and keeps the pointer
ContextAfterCloseKept(ctx) == ctx

ContextAfterClose(ctx) == 0

\* FileSource::close
Close ==
    /\ ~Crashed
    /\ ~fillPc.busy
    /\ frame.pc = "idle"
    /\ inputFile' = [inputFile EXCEPT !.isOpen = FALSE]
    /\ IF zstdContext # 0
       THEN /\ ctxFrees' = [ctxFrees EXCEPT ![zstdContext] = @ + 1]
            /\ zstdContext' = ContextAfterClose(zstdContext)
       ELSE UNCHANGED <<ctxFrees, zstdContext>>
    /\ opened' = FALSE
    /\ lastCall' = [NoCall EXCEPT !.op = "close", !.again = (lastCall.op = "close")]
    /\ UNCHANGED <<config, web, frame, copied, dctx, compressedBuffer, decompressedBuffer,
                   decompressedCapacity, decompressedOffset, decompressedSize, endOfCompressedStream,
                   totalNumBytesRead, bytesReturned, opens, delivered, eosSeen, errSeen,
                   reader>>

\* counting the bytes asked for
BytesRequested(n, bufferSize) == bufferSize

\* what a call adds to the counter: totalBytesWritten (line 173),
\* numBytesRead (line 185)
BytesCounted(n, bufferSize) == n

\* a counter update that stores the count of this call
CounterStore(counter, n) == n

\* totalNumBytesRead += n on the atomic counter (lines 173, 185)
CounterAdd(counter, n) == counter + n

\* FileSource::fillTupleBuffer on a tuple buffer of bufferSize bytes.
fillTupleBuffer(bufferSize, recovers) ==
    \E r \in {IF compressionType = "zstd"
              THEN FillLoop(Self, <<>>, bufferSize, recovers)
              ELSE FillRaw(Self, bufferSize)} :
    LET n == Len(r.dest)
        returned == r.status = "ok"
        result == IF returned THEN FillTupleBufferResult(n) ELSE r.status
    IN /\ ~Crashed
       /\ ~fillPc.busy
       /\ inputFile' = r.s.inputFile
       /\ dctx' = r.s.dctx
       /\ decompressedBuffer' = r.s.decompressedBuffer
       /\ decompressedOffset' = r.s.decompressedOffset
       /\ decompressedSize' = r.s.decompressedSize
       /\ endOfCompressedStream' = r.s.endOfCompressedStream
       /\ totalNumBytesRead' = IF returned
                               THEN CounterAdd(totalNumBytesRead, BytesCounted(n, bufferSize))
                               ELSE totalNumBytesRead
       /\ bytesReturned' = IF result = "bytes" THEN bytesReturned + n
                           ELSE bytesReturned
       /\ delivered' = IF returned THEN delivered \o r.dest ELSE delivered
       /\ eosSeen' = (eosSeen \/ result = "eos")
       /\ errSeen' = (errSeen \/ result = "throw")
       /\ lastCall' = [op |-> "fill", again |-> FALSE, result |-> result,
                       n |-> IF returned THEN n ELSE 0, k |-> bufferSize]
       /\ UNCHANGED <<config, web, frame, copied, zstdContext, ctxFrees, compressedBuffer,
                       decompressedCapacity, opens, opened, reader>>

Fill ==
    \E bufferSize \in 1..MaxCap, recovers \in (IF dctx.poisoned THEN BOOLEAN ELSE {FALSE}) :
        fillTupleBuffer(bufferSize, recovers)

Next == Open \/ Close \/ Fill

Spec == Init /\ [][Next]_vars

NextWide == OpenWide \/ Close \/ Fill

SpecWide == InitWide /\ [][NextWide]_vars

\* the small files with a source that may be opened again
SpecReopen == Init /\ [][NextWide]_vars

\* ------------------------------------ fillTupleBuffer, statement by statement
\* what the statements of a running call leave alone
callFrame == <<config, web, reader, zstdContext, ctxFrees, compressedBuffer,
               decompressedCapacity, totalNumBytesRead, bytesReturned, opens, opened,
               delivered, eosSeen, errSeen, lastCall>>

\* Entering fillTupleBuffer (lines 142-147); the uncompressed path reads at
\* once (lines 182-184).
FillEnter ==
    \E bufferSize \in 1..MaxCap, recovers \in (IF dctx.poisoned THEN BOOLEAN ELSE {FALSE}) :
        LET entered == [NoFrame EXCEPT !.bufferSize = bufferSize, !.recovers = recovers]
            raw == FillRaw(Self, bufferSize)
        IN /\ ~Crashed
           /\ ~fillPc.busy
           /\ frame.pc = "idle"
           /\ IF compressionType = "zstd"
              THEN frame' = [entered EXCEPT !.pc = "loop"] /\ UNCHANGED inputFile
              ELSE /\ frame' = [entered EXCEPT !.pc = "done", !.dest = raw.dest]
                   /\ inputFile' = raw.s.inputFile
           /\ UNCHANGED <<callFrame, copied, dctx, decompressedBuffer,
                           decompressedOffset, decompressedSize, endOfCompressedStream>>

\* The test of the fill loop and, with staged bytes, its copy (lines 149-162).
FillIter ==
    LET availableDecompressed == decompressedSize - decompressedOffset
        spaceInBuffer == frame.bufferSize - Len(frame.dest)
        bytesToCopy == BytesToCopy(availableDecompressed, spaceInBuffer)
    IN /\ frame.pc = "loop"
       /\ IF Len(frame.dest) >= frame.bufferSize
          THEN /\ frame' = [frame EXCEPT !.pc = "done"]
               /\ UNCHANGED <<decompressedOffset, copied>>
          ELSE IF decompressedOffset < decompressedSize
          THEN /\ frame' = [frame EXCEPT !.dest =
                       @ \o SubSeq(decompressedBuffer, decompressedOffset + 1,
                                   decompressedOffset + bytesToCopy)]
               /\ decompressedOffset' = decompressedOffset + bytesToCopy
               /\ copied' = copied \cup
                       ((decompressedOffset + 1)..(decompressedOffset + bytesToCopy))
          ELSE /\ frame' = [frame EXCEPT !.pc = "call"]
               /\ UNCHANGED <<decompressedOffset, copied>>
       /\ UNCHANGED <<callFrame, inputFile, dctx, decompressedBuffer, decompressedSize,
                       endOfCompressedStream>>

\* decompressNextBlock up to its loop (lines 94-113): the read of the stream.
BlockRead ==
    LET rd == IstreamRead(inputFile, compressedBuffer)
    IN /\ frame.pc = "call"
       /\ IF endOfCompressedStream
          THEN /\ frame' = [frame EXCEPT !.pc = "done"]
               /\ UNCHANGED <<inputFile, decompressedBuffer, decompressedSize,
                               endOfCompressedStream, copied>>
          ELSE IF StreamEnded(Len(rd.data))
          THEN /\ frame' = [frame EXCEPT !.pc = "done"]
               /\ inputFile' = rd.stream
               /\ endOfCompressedStream' = TRUE
               /\ UNCHANGED <<decompressedBuffer, decompressedSize, copied>>
          ELSE /\ frame' = [frame EXCEPT !.pc = "decode", !.input = rd.data, !.pos = 0]
               /\ inputFile' = rd.stream
               /\ decompressedSize' = 0
               /\ decompressedBuffer' = <<>>
               /\ copied' = {}
               /\ UNCHANGED endOfCompressedStream
       /\ UNCHANGED <<callFrame, dctx, decompressedOffset>>

\* The test of the decode loop and one pass through its body (lines 114-134).
BlockDecode ==
    LET i == DecodeIter(Self, frame.input, frame.pos, frame.recovers)
    IN /\ frame.pc = "decode"
       /\ IF frame.pos >= Len(frame.input)
          THEN /\ frame' = [frame EXCEPT !.pc = "decoded"]
               /\ UNCHANGED <<dctx, decompressedBuffer, decompressedSize>>
          ELSE /\ dctx' = i.s.dctx
               /\ decompressedBuffer' = i.s.decompressedBuffer
               /\ decompressedSize' = i.s.decompressedSize
               /\ frame' = IF i.status # "ok"
                            THEN [frame EXCEPT !.pc = "done", !.status = i.status]
                            ELSE IF i.more THEN [frame EXCEPT !.pos = i.pos]
                            ELSE [frame EXCEPT !.pc = "decoded", !.pos = i.pos]
       /\ UNCHANGED <<callFrame, copied, inputFile, decompressedOffset,
                       endOfCompressedStream>>

\* The end of decompressNextBlock (lines 136-137) and the test of its result
\* in fillTupleBuffer (lines 166-169).
BlockReturn ==
    /\ frame.pc = "decoded"
    /\ decompressedOffset' = 0
    /\ frame' = [frame EXCEPT !.pc = IF decompressedSize > 0 THEN "loop" ELSE "done"]
    /\ UNCHANGED <<callFrame, copied, inputFile, dctx, decompressedBuffer,
                   decompressedSize, endOfCompressedStream>>

\* Leaving fillTupleBuffer: the counter update and the result (lines 173-178,
\* 185-190), or the exception.
FillReturn ==
    LET n == Len(frame.dest)
        bufferSize == frame.bufferSize
        returned == frame.status = "ok"
        result == IF returned THEN FillTupleBufferResult(n) ELSE frame.status
    IN /\ frame.pc = "done"
       /\ totalNumBytesRead' = IF returned
                               THEN CounterAdd(totalNumBytesRead, BytesCounted(n, bufferSize))
                               ELSE totalNumBytesRead
       /\ bytesReturned' = IF result = "bytes" THEN bytesReturned + n
                           ELSE bytesReturned
       /\ delivered' = IF returned THEN delivered \o frame.dest ELSE delivered
       /\ eosSeen' = (eosSeen \/ result = "eos")
       /\ errSeen' = (errSeen \/ result = "throw")
       /\ lastCall' = [op |-> "fill", again |-> FALSE, result |-> result,
                       n |-> IF returned THEN n ELSE 0, k |-> bufferSize]
       /\ frame' = NoFrame
       /\ UNCHANGED <<config, web, reader, copied, inputFile, zstdContext, dctx, ctxFrees,
                       compressedBuffer, decompressedBuffer, decompressedCapacity,
                       decompressedOffset, decompressedSize, endOfCompressedStream,
                       opens, opened>>

\* the statements of the call in progress
Running == FillIter \/ BlockRead \/ BlockDecode \/ BlockReturn \/ FillReturn

\* the calls are followed through the first session of a source
OpenOnce == \E createOk \in BOOLEAN : open(createOk, 1)

NextSteps == OpenOnce \/ Close \/ FillEnter \/ Running

\* staging buffers that hold more than a small destination takes
InitSteps ==
    InitWithin(MaxFile, MaxRawFile, MaxInCap, WideOutCap) /\ NothingDownloaded

\* The thread that called fillTupleBuffer keeps executing it.
SpecSteps == InitSteps /\ [][NextSteps]_vars /\ WF_vars(Running)

\* Files of a block, the end of a frame, a corrupt unit and a unit after it,
\* read through staging buffers of two units.
LongFile == WideFile + 2
LongFiles ==
    {f \in SeqsUpTo(Units, LongFile) : Len(f) = LongFile /\ f[3] = "E" /\ f[4] = "X"}

InitLong ==
    /\ pathExists = TRUE
    /\ compressionType = "zstd"
    /\ file \in LongFiles
    /\ DStreamInSize = WideInCap
    /\ DStreamOutSize = WideOutCap
    /\ InitWithin(LongFile, MaxRawFile, WideInCap, WideOutCap)
    /\ NothingDownloaded

SpecLong == InitLong /\ [][NextSteps]_vars

\* ------------------------------------------------------- URLDownloader
HttpOk == 200
Schemes == {"https", "http", "ftp"}
Statuses == {HttpOk, 404, 500}
ContentTypes == {"", "text/csv"}
TargetPath == "dir/data.bin"

\* a download that goes on to write whenever the server answered at all
ProceedsOnAnyResponse(response, status) == response

\* lines 68-76: the request got a response (res) and its status is 200
Proceeds(response, status) == response /\ status = HttpOk

Prefixes(s) == {SubSeq(s, 1, i) : i \in 0..Len(s)}

\* URLDownloader::downloadToFile(url, targetPath).  scheme is the scheme of url;
\* response, status, body and contentType are what client->Get yields;
\* mkdirOk, openOk and writeOk are whether create_directories, the ofstream
\* constructor and ofs.write succeed; written is what a failed write left.
downloadToFile(scheme, response, status, body, contentType, mkdirOk, openOk, writeOk, written) ==
    LET call == [NoDownload EXCEPT !.scheme = scheme]
        threw == [call EXCEPT !.outcome = "runtime_error"]
        answered == [threw EXCEPT !.response = response,
                                  !.status = IF response THEN status ELSE 0]
        created == [disk EXCEPT !.parent = TRUE]
    IN /\ UNCHANGED <<config, source, reader, frame, copied, bytesReturned, opens, opened,
                       delivered, eosSeen, errSeen, lastCall>>
       /\ IF scheme # "https" /\ scheme # "http"
          THEN download' = threw /\ UNCHANGED disk
          ELSE IF ~Proceeds(response, status)
          THEN download' = answered /\ UNCHANGED disk
          ELSE IF ~disk.parent /\ ~mkdirOk
          \* std::filesystem::filesystem_error is a std::runtime_error
          THEN download' = answered /\ UNCHANGED disk
          ELSE IF ~openOk
          THEN download' = answered /\ disk' = created
          ELSE IF ~writeOk
          THEN /\ download' = answered
               /\ disk' = [created EXCEPT !.target = TRUE, !.content = written]
          ELSE /\ download' = [answered EXCEPT !.outcome = "returned",
                                               !.localPath = TargetPath,
                                               !.bytesDownloaded = Len(body),
                                               !.contentType = contentType]
               /\ disk' = [created EXCEPT !.target = TRUE, !.content = body]

DownloadToFile ==
    \E scheme \in Schemes, response \in BOOLEAN, status \in Statuses,
       body \in SeqsUpTo(Bytes, MaxBody), contentType \in ContentTypes,
       mkdirOk \in BOOLEAN, openOk \in BOOLEAN, writeOk \in BOOLEAN :
        \E written \in Prefixes(body) :
            downloadToFile(scheme, response, status, body, contentType,
                           mkdirOk, openOk, writeOk, written)

\* the downloader beside a source that is never opened
InitDownload ==
    /\ pathExists = FALSE
    /\ compressionType = "none"
    /\ InitWithin(MaxFile, MaxRawFile, MaxInCap, MaxOutCap)
    /\ disk \in {EmptyDisk, [EmptyDisk EXCEPT !.parent = TRUE],
                 [parent |-> TRUE, target |-> TRUE, content |-> <<"b">>]}
    /\ download = NoDownload

NextDownload == DownloadToFile

SpecDownload == InitDownload /\ [][NextDownload]_vars

\* ------------------------------------------- filling with a reader beside
\* fillTupleBuffer up to the counter update: the buffer is filled (lines
\* 142-171, 182-184), the count is not yet added.
FillWork ==
    \E bufferSize \in 1..MaxCap, recovers \in (IF dctx.poisoned THEN BOOLEAN ELSE {FALSE}) :
        \E r \in {IF compressionType = "zstd"
                  THEN FillLoop(Self, <<>>, bufferSize, recovers)
                  ELSE FillRaw(Self, bufferSize)} :
           /\ ~Crashed
           /\ ~fillPc.busy
           /\ inputFile' = r.s.inputFile
           /\ dctx' = r.s.dctx
           /\ decompressedBuffer' = r.s.decompressedBuffer
           /\ decompressedOffset' = r.s.decompressedOffset
           /\ decompressedSize' = r.s.decompressedSize
           /\ endOfCompressedStream' = r.s.endOfCompressedStream
           /\ fillPc' = [busy |-> TRUE, status |-> r.status, dest |-> r.dest,
                         k |-> bufferSize]
           /\ UNCHANGED <<config, web, frame, copied, zstdContext, ctxFrees, compressedBuffer,
                           decompressedCapacity, totalNumBytesRead, opens, opened,
                           delivered, eosSeen, errSeen, lastCall, observed, bytesReturned>>

\* The rest of fillTupleBuffer: the atomic add (lines 173, 185) and the
\* return (lines 174-178, 186-190), or the exception leaving the call.
FillAdd ==
    LET n == Len(fillPc.dest)
        bufferSize == fillPc.k
        returned == fillPc.status = "ok"
        result == IF returned THEN FillTupleBufferResult(n) ELSE fillPc.status
    IN /\ fillPc.busy
       /\ totalNumBytesRead' = IF returned
                               THEN CounterAdd(totalNumBytesRead, BytesCounted(n, bufferSize))
                               ELSE totalNumBytesRead
       /\ bytesReturned' = IF result = "bytes" THEN bytesReturned + n
                           ELSE bytesReturned
       /\ delivered' = IF returned THEN delivered \o fillPc.dest ELSE delivered
       /\ eosSeen' = (eosSeen \/ result = "eos")
       /\ errSeen' = (errSeen \/ result = "throw")
       /\ lastCall' = [op |-> "fill", again |-> FALSE, result |-> result,
                       n |-> IF returned THEN n ELSE 0, k |-> fillPc.k]
       /\ fillPc' = Idle
       /\ UNCHANGED <<config, web, frame, copied, inputFile, zstdContext, dctx, ctxFrees, compressedBuffer,
                       decompressedBuffer, decompressedCapacity, decompressedOffset,
                       decompressedSize, endOfCompressedStream, opens, opened, observed>>

\* FileSource::toString on the diagnostics thread: one atomic load.
toString ==
    /\ observed' = totalNumBytesRead
    /\ UNCHANGED <<config, web, frame, copied, source, opens, opened, delivered, eosSeen, errSeen,
                   lastCall, fillPc, bytesReturned>>

NextConc == Open \/ Close \/ FillWork \/ FillAdd \/ toString

SpecConc == Init /\ [][NextConc]_vars

\* ----------------------------------------------------------------- claims
IsPrefix(p, s) == Len(p) <= Len(s) /\ SubSeq(s, 1, Len(p)) = p

\* the logical byte stream of the file: raw, or decompressed
Logical == IF compressionType = "zstd" THEN DecodeAll(file) ELSE file

\* the file is a well-formed compressed stream
ValidStream == \A i \in 1..Len(file) : file[i] # "X"

InSession == opened /\ lastCall.op = "fill"
\* this step is a fillTupleBuffer call inside an open session
FillStep == opened /\ opened' /\ lastCall'.op = "fill"
\* this step reads from the underlying stream: a read on a good stream of at
\* least one byte moves the position or sets eofbit|failbit
StreamRead == inputFile' # inputFile

\* C1: uncompressed round trip.  In an open uncompressed session the bytes
\* delivered so far are a prefix of the file, every Bytes(n) result carries
\* exactly min(capacity, bytes left) > 0 bytes, and a call returns
\* EndOfStream exactly when the whole file had been delivered before it.
C1_RoundTripRaw ==
    (InSession /\ compressionType = "none") =>
        /\ IsPrefix(delivered, file)
        /\ lastCall.result \in {"bytes", "eos"}
        /\ lastCall.result = "bytes" =>
               /\ lastCall.n > 0
               /\ lastCall.n = Min(lastCall.k, Len(file) - (Len(delivered) - lastCall.n))
        /\ lastCall.result = "eos" => lastCall.n = 0 /\ delivered = file

\* a file of three bytes drained with capacity 2 to EndOfStream, through a
\* short last chunk
C1_Witness ==
    /\ InSession /\ compressionType = "none"
    /\ lastCall.result = "eos" /\ lastCall.k = 2
    /\ Len(file) = 3 /\ delivered = file /\ totalNumBytesRead = 3

\* C2: compressed round trip.  For a well-formed compressed file, once the
\* file has been read to its end and a call in the open zstd session returns
\* EndOfStream, the bytes delivered in the session are the whole
\* decompressed content, whatever the sizes of the staging buffers.
C2_RoundTripZstd ==
    (/\ InSession /\ compressionType = "zstd" /\ ValidStream
     /\ lastCall.result = "eos" /\ endOfCompressedStream)
        => delivered = DecodeAll(file)

\* C3: ordering without gaps or duplication.  In an open session on a
\* well-formed file, in either mode, the bytes delivered so far are a prefix
\* of the logical byte stream.
C3_DeliveredIsPrefix ==
    (opened /\ ValidStream) => IsPrefix(delivered, Logical)

\* C4: end-of-stream stability.  A fillTupleBuffer call made in an open
\* session after EndOfStream was returned in that session returns
\* EndOfStream and reads nothing from the underlying stream.
C4_EosStable ==
    [][(eosSeen /\ FillStep) => (lastCall'.result = "eos" /\ ~StreamRead)]_vars

\* C5: maximal fill.  On a well-formed file, when a call returned Bytes(n)
\* with n below the capacity of its destination, the next call of the session
\* returns EndOfStream.
C5_ShortOnlyAtEnd ==
    [][(/\ ValidStream /\ FillStep /\ lastCall.op = "fill"
        /\ lastCall.result = "bytes" /\ lastCall.n < lastCall.k)
       => lastCall'.result = "eos"]_vars

\* C6: no empty non-terminal result.  In both modes a call that returns does
\* so with EndOfStream after copying zero bytes or with Bytes(n), n > 0.
C6_NoEmptyBytes ==
    lastCall.op = "fill" =>
        /\ lastCall.result = "bytes" => lastCall.n > 0
        /\ lastCall.result = "eos" => lastCall.n = 0
        /\ lastCall.result \in {"bytes", "eos"} =>
               lastCall.n <= Len(delivered) /\ lastCall.n <= totalNumBytesRead

\* a zstd call that copied nothing returned EndOfStream, after one that
\* returned bytes
C6_Witness ==
    /\ InSession /\ compressionType = "zstd"
    /\ lastCall.result = "eos" /\ lastCall.n = 0 /\ Len(delivered) > 0

\* C7: a failed open() leaves no stream open and no codec context held.
C7_FailedOpenReleases ==
    (lastCall.op = "open" /\ lastCall.result = "throw")
        => (~inputFile.isOpen /\ zstdContext = 0)

\* C8: idempotent close.  close() never raises, leaves the stream closed and
\* the context reference null, and no codec context is ever freed twice.
C8_IdempotentClose ==
    /\ \A id \in 1..Len(ctxFrees) : ctxFrees[id] <= 1
    /\ lastCall.op = "close" =>
           lastCall.result = "ok" /\ zstdContext = 0 /\ ~inputFile.isOpen

\* close() called twice in a row in a zstd session in which a fill failed
\* with a codec error
C8_Witness ==
    /\ lastCall.op = "close" /\ lastCall.again
    /\ errSeen /\ opens = 1 /\ ctxFrees = <<1>>

\* C9: byte-counter consistency.  After one open() and a drain to
\* EndOfStream of a well-formed file, totalNumBytesRead is the length of the
\* logical stream.
C9_CounterAfterDrain ==
    (InSession /\ opens = 1 /\ ValidStream /\ lastCall.result = "eos")
        => totalNumBytesRead = Len(Logical)

\* C10: codec errors are fatal.  After a fillTupleBuffer call of the session
\* failed with a codec error, no later call of the session reads further
\* input and returns bytes.
C10_ErrorIsFatal ==
    [][(errSeen /\ FillStep) => ~(StreamRead /\ lastCall'.result = "bytes")]_vars

\* C11: concurrent counter reads.  Under every interleaving of toString with
\* the filling caller, a read that observes a new value observes one that is
\* not below the value read before and that is the sum of the byte counts of
\* the fills that have returned by then (a prefix of the fills made so far),
\* and the read changes no source state.
C11_ReaderSeesPrefixSums ==
    [][observed' # observed =>
          /\ observed' >= observed
          /\ observed' = bytesReturned'
          /\ UNCHANGED source]_vars

\* a read made while a fill has copied bytes and not yet added them, after
\* an earlier fill: the reader sees the sum of a proper prefix
C11_Witness ==
    /\ fillPc.busy /\ Len(fillPc.dest) > 0
    /\ observed = totalNumBytesRead /\ observed > 0

\* C12: downloadToFile on failure leaves no target file.  A call whose URL
\* scheme is neither http nor https, whose request yields no response, or
\* whose response has a status other than 200 throws std::runtime_error and
\* creates neither the target file nor its parent directory; the target
\* file is created, and the result's localPath is targetPath, only after a
\* 200 response.
C12_FailedDownloadLeavesNoFile ==
    [][download' # download =>
          /\ (\/ download'.scheme \notin {"https", "http"}
              \/ ~download'.response
              \/ download'.status # HttpOk)
                 => download'.outcome = "runtime_error" /\ UNCHANGED disk
          /\ (disk'.target /\ ~disk.target)
                 => download'.response /\ download'.status = HttpOk
          /\ download'.localPath = TargetPath
                 => download'.response /\ download'.status = HttpOk]_vars

\* a call answered with 404 has thrown and the target is still absent
C12_Witness ==
    /\ download.outcome = "runtime_error"
    /\ download.response /\ download.status # HttpOk
    /\ ~disk.target /\ ~disk.parent

\* C13: staging cursor invariant.  In compressed mode, between operations
\* (after open, after every fillTupleBuffer call whatever its outcome, and
\* after close), 0 <= decompressedOffset <= decompressedSize <= the capacity
\* of the output staging buffer.
C13_CursorWithinStaging ==
    compressionType = "zstd" =>
        /\ 0 <= decompressedOffset
        /\ decompressedOffset <= decompressedSize
        /\ decompressedSize <= decompressedCapacity

\* C14: byte counter accounting.  totalNumBytesRead is the sum of n over all
\* Bytes(n) results this source has returned: a fillTupleBuffer call that
\* returns Bytes(n) raises it by exactly n, and every other step (EndOfStream,
\* a failed call, close(), open() again) leaves it as it is, so it never
\* decreases.
C14_CounterIsBytesReturned ==
    [][/\ totalNumBytesRead' = bytesReturned'
       /\ totalNumBytesRead' >= totalNumBytesRead
       /\ IF lastCall'.op = "fill" /\ lastCall'.result = "bytes"
          THEN totalNumBytesRead' = totalNumBytesRead + lastCall'.n
          ELSE totalNumBytesRead' = totalNumBytesRead]_vars

\* bytes returned in a second session on top of those of the first
C14_Witness ==
    /\ opens = 2 /\ lastCall.op = "fill" /\ lastCall.result = "bytes"
    /\ totalNumBytesRead > lastCall.n

\* C15: codec context pairing.  Over any sequence of open() and close() in
\* Zstd mode, open() again without a close() between included, no context is
\* released twice and at most one context is unreleased at any time: the one
\* the source holds.
C15_ContextsPaired ==
    \A id \in 1..Len(ctxFrees) :
        /\ ctxFrees[id] <= 1
        /\ ctxFrees[id] = 0 => zstdContext = id

\* Zstd mode with the flag set
Exhausted == compressionType = "zstd" /\ endOfCompressedStream

\* C16: exhaustion is sticky.  endOfCompressedStream becomes true only in a
\* fillTupleBuffer call whose read of the underlying stream returned zero
\* bytes (the input staging buffer is empty, or the stream is left failed:
\* closed, or at the end of the file), and once true it
\* stays true through every later fillTupleBuffer and close(); only an
\* open() sets it back to false.
C16_ExhaustionSticky ==
    [][/\ (~endOfCompressedStream /\ endOfCompressedStream')
            => /\ lastCall'.op = "fill"
               /\ \/ compressedBuffer = 0
                  \/ /\ ~inputFile'.good
                     /\ inputFile'.isOpen => inputFile'.pos = Len(file)
       /\ (endOfCompressedStream /\ ~endOfCompressedStream')
            => lastCall'.op = "open" /\ lastCall'.result = "ok"]_vars

\* the flag is still set after a close() that followed the end of stream
C16_Witness ==
    /\ endOfCompressedStream /\ lastCall.op = "close" /\ eosSeen

\* C17: exhausted decode is a no-op.  On an exhausted stream
\* decompressNextBlock returns false and changes nothing, and a
\* fillTupleBuffer call that has nothing staged, and so goes straight to it,
\* returns EndOfStream without reading and leaves the stream, the staging
\* buffers, decompressedOffset, decompressedSize, the exhausted flag and the
\* byte counter as they were, however often it is repeated.
C17_ExhaustedDecodeNoOp ==
    [][Exhausted =>
          /\ \A recovers \in BOOLEAN :
                 decompressNextBlock(Self, recovers) =
                     [s |-> Self, status |-> "ok", ret |-> FALSE]
          /\ (lastCall'.op = "fill" /\ decompressedOffset >= decompressedSize)
                 => UNCHANGED source /\ lastCall'.result = "eos"]_vars

\* a second EndOfStream in a row on an exhausted stream that still has a
\* staged block behind the cursor
C17_Witness ==
    /\ Exhausted /\ opened /\ decompressedSize > 0
    /\ lastCall.op = "fill" /\ lastCall.result = "eos"

\* C18: fill terminates.  Every fillTupleBuffer call that has been entered
\* returns or throws, whatever the stream content and the capacity, and a pass
\* through the fill loop that stays in the loop without calling
\* decompressNextBlock has copied at least one byte.
C18_FillTerminates ==
    /\ (frame.pc # "idle") ~> (frame.pc = "idle")
    /\ [][(frame.pc = "loop" /\ frame'.pc = "loop")
              => Len(frame'.dest) > Len(frame.dest)]_vars

\* a call that went through two rounds of read, decode and copy is leaving
C18_Witness ==
    /\ frame.pc = "done" /\ Len(frame.dest) >= 2
    /\ inputFile.pos >= 2 /\ DStreamInSize = 1

\* C19: destination bounds.  Every Bytes(n) result has 1 <= n <= the
\* capacity of the buffer filled; in compressed mode every copy writes the
\* destination offsets from totalBytesWritten on, contiguously and within the
\* capacity, and reads staging offsets within
\* [decompressedOffset, decompressedSize), inside the staging buffer.
C19_CopiesWithinBounds ==
    [][/\ (frame.pc = "loop" /\ frame'.pc = "loop") =>
             LET totalBytesWritten == Len(frame.dest)
                 bytesToCopy == Len(frame'.dest) - totalBytesWritten
             IN /\ bytesToCopy >= 1
                /\ totalBytesWritten + bytesToCopy <= frame.bufferSize
                /\ decompressedOffset + bytesToCopy <= decompressedSize
                /\ decompressedSize <= decompressedCapacity
                /\ decompressedSize <= Len(decompressedBuffer)
                /\ decompressedOffset' = decompressedOffset + bytesToCopy
                /\ SubSeq(frame'.dest, 1, totalBytesWritten) = frame.dest
       /\ (frame.pc = "done" /\ frame'.pc = "idle" /\ lastCall'.result = "bytes") =>
             /\ 1 <= lastCall'.n
             /\ lastCall'.n <= lastCall'.k
             /\ lastCall'.n = Len(frame.dest)]_vars

\* a copy that took less than what was staged: the destination was the limit
C19_Witness ==
    /\ frame.pc = "loop" /\ Len(frame.dest) = frame.bufferSize
    /\ 0 < decompressedOffset /\ decompressedOffset < decompressedSize

\* C20: refill only when drained.  fillTupleBuffer calls decompressNextBlock
\* only when decompressedOffset >= decompressedSize, so the reset of the
\* staging buffer for a refill never overwrites a decompressed byte that has
\* not yet been copied to a destination.
C20_RefillOnlyWhenDrained ==
    [][/\ frame'.pc = "call" => decompressedOffset' >= decompressedSize'
       /\ (frame.pc = "call" /\ frame'.pc = "decode") =>
              \A at \in 1..decompressedSize : at \in copied]_vars

====
